---- MODULE Spec2Model ----
(***************************************************************************)
(* A model of PDFrenamer.py: the text normaliser, the filename sanitiser,  *)
(* the identifier extractor (a cascade of regular-expression searches),    *)
(* the collision resolver and the batch / single-document handlers.        *)
(*                                                                         *)
(* Python strings are sequences of one-character strings.  The regular     *)
(* expressions of the source are written as sequences of nodes and run by  *)
(* a backtracking matcher that tries alternatives in the order Python's re *)
(* module does (greedy quantifiers, leftmost alternative first).           *)
(***************************************************************************)
EXTENDS Integers, Sequences, FiniteSets, TLC

VARIABLES
    \* _normalise_text, applied to a raw text
    raw, normalised, normPc,
    \* _safe_filename, applied to a name and then to its own result
    fname, safe1, safe2, safePc,
    \* extract_ids_from_text, applied to a text
    text, ids, idsPc,
    \* ensure_unique, called repeatedly on one `existing` set
    existing0, existing, requests, returned, last,
    \* the Streamlit handler and rename_and_zip_files
    uploaded_files, prefix, show_log, entry, pc, idx, seen, results, archive, loc, download

normVars == <<raw, normalised, normPc>>
safeVars == <<fname, safe1, safe2, safePc>>
idsVars == <<text, ids, idsPc>>
uniqVars == <<existing0, existing, requests, returned, last>>
batchVars == <<uploaded_files, prefix, show_log, entry, pc, idx, seen, results, archive,
               loc, download>>
vars == <<normVars, safeVars, idsVars, uniqVars, batchVars>>

----------------------------------------------------------------------------
(* Bounds of the model *)

\* longest raw text given to _normalise_text
MaxRawLen == 6
\* longest name given to _safe_filename
MaxNameLen == 4
\* most fragments concatenated into a text given to extract_ids_from_text
MaxFrags == 3
\* most calls of ensure_unique on one set
MaxRequests == 3
\* most documents uploaded at once
MaxDocs == 3

----------------------------------------------------------------------------
(* Characters: str.lower, str.upper, and the classes \d \w \s of re *)

UpperSeq == <<"A","B","C","D","E","F","G","H","I","J","K","L","M",
              "N","O","P","Q","R","S","T","U","V","W","X","Y","Z">>
LowerSeq == <<"a","b","c","d","e","f","g","h","i","j","k","l","m",
              "n","o","p","q","r","s","t","u","v","w","x","y","z">>
UpperSet == {UpperSeq[i] : i \in 1..26}
LowerSet == {LowerSeq[i] : i \in 1..26}
Digits == {"0","1","2","3","4","5","6","7","8","9"}
WordChars == UpperSet \cup LowerSet \cup Digits \cup {"_"}
Whitespace == {" ", "\t", "\n", "\r", "\f"}
SpaceTab == {" ", "\t"}
\* the hyphen and the en dash (U+2013), which is written "EN DASH" here
Hyphens == {"-", "EN DASH"}

LowerMap == [c \in UpperSet |-> LowerSeq[CHOOSE i \in 1..26 : UpperSeq[i] = c]]
UpperMap == [c \in LowerSet |-> UpperSeq[CHOOSE i \in 1..26 : LowerSeq[i] = c]]

LowerChar(c) == IF c \in UpperSet THEN LowerMap[c] ELSE c
UpperChar(c) == IF c \in LowerSet THEN UpperMap[c] ELSE c

\* str.lower() and str.upper()
Lower(s) == [i \in 1..Len(s) |-> LowerChar(s[i])]
Upper(s) == [i \in 1..Len(s) |-> UpperChar(s[i])]

\* s[a:b] of Python, 0-based, end exclusive
Slice(s, a, b) == IF b <= a THEN <<>> ELSE SubSeq(s, a + 1, b)

\* Python's None, and the truth value of an Optional[str]
None == <<"None">>
Truthy(x) == x # None /\ x # <<>>
\* x or ""
OrEmpty(x) == IF Truthy(x) THEN x ELSE <<>>

----------------------------------------------------------------------------
(* Regular expressions: nodes, and the backtracking matcher of re *)

\* a character class with a greedy quantifier {min,max}; max = -1 is unbounded
Rep(set, min, max) == [t |-> "set", s |-> set, min |-> min, max |-> max]
Ch(c) == <<Rep({c}, 1, 1)>>
\* a literal string, one node per character
Lit(w) == [i \in 1..Len(w) |-> Rep({w[i]}, 1, 1)]
\* \b
Bnd == <<[t |-> "bnd"]>>
\* (?:a|b|...), alternatives tried left to right
Alt(alts) == <<[t |-> "alt", alts |-> alts]>>
\* capture group g
Grp(g, body) == <<[t |-> "open", g |-> g]>> \o body \o <<[t |-> "close", g |-> g]>>

NoCaps == [g \in 1..2 |-> <<-1, -1>>]
Fail == [ok |-> FALSE, start |-> -1, end |-> -1, caps |-> NoCaps]

\* whether character c matches the class of node n (re.IGNORECASE when ic)
InClass(n, c, ic) ==
    IF ic THEN LowerChar(c) \in n.s \/ UpperChar(c) \in n.s ELSE c \in n.s

\* \b at offset pos: exactly one side is a word character
IsWordAt(s, i) == i >= 1 /\ i <= Len(s) /\ s[i] \in WordChars
Boundary(s, pos) == IsWordAt(s, pos) # IsWordAt(s, pos + 1)

RECURSIVE Run(_, _, _, _, _)
\* how many consecutive characters from offset pos are in the class of n, up to lim
Run(n, s, pos, ic, lim) ==
    IF lim = 0 \/ pos >= Len(s) \/ ~InClass(n, s[pos + 1], ic) THEN 0
    ELSE 1 + Run(n, s, pos + 1, ic, lim - 1)

RECURSIVE MatchHere(_, _, _, _, _), TryRep(_, _, _, _, _, _, _), TryAlt(_, _, _, _, _, _, _)
\* match the node sequence todo at offset pos
MatchHere(todo, s, pos, ic, caps) ==
    IF Len(todo) = 0 THEN [ok |-> TRUE, start |-> -1, end |-> pos, caps |-> caps]
    ELSE LET n == Head(todo)
             rest == Tail(todo)
         IN CASE n.t = "set" ->
                   LET most == Run(n, s, pos, ic, IF n.max < 0 THEN Len(s) ELSE n.max)
                   IN IF most < n.min THEN Fail
                      ELSE TryRep(n, most, rest, s, pos, ic, caps)
              [] n.t = "bnd" ->
                   IF Boundary(s, pos) THEN MatchHere(rest, s, pos, ic, caps) ELSE Fail
              [] n.t = "alt" -> TryAlt(n.alts, 1, rest, s, pos, ic, caps)
              [] n.t = "open" ->
                   MatchHere(rest, s, pos, ic, [caps EXCEPT ![n.g] = <<pos, -1>>])
              [] n.t = "close" ->
                   MatchHere(rest, s, pos, ic, [caps EXCEPT ![n.g] = <<caps[n.g][1], pos>>])

\* greedy: k repetitions first, then k-1, ... down to n.min
TryRep(n, k, rest, s, pos, ic, caps) ==
    LET r == MatchHere(rest, s, pos + k, ic, caps)
    IN IF r.ok THEN r
       ELSE IF k > n.min THEN TryRep(n, k - 1, rest, s, pos, ic, caps)
       ELSE Fail

TryAlt(alts, i, rest, s, pos, ic, caps) ==
    IF i > Len(alts) THEN Fail
    ELSE LET r == MatchHere(alts[i] \o rest, s, pos, ic, caps)
         IN IF r.ok THEN r ELSE TryAlt(alts, i + 1, rest, s, pos, ic, caps)

RECURSIVE SearchFrom(_, _, _, _)
\* the leftmost match starting at offset from or later
SearchFrom(pat, s, from, ic) ==
    IF from > Len(s) THEN Fail
    ELSE LET r == MatchHere(pat, s, from, ic, NoCaps)
         IN IF r.ok THEN [r EXCEPT !.start = from]
            ELSE SearchFrom(pat, s, from + 1, ic)

\* re.search(pat, s, flags)
Search(pat, s, ic) == SearchFrom(pat, s, 0, ic)

\* m.group(0), m.group(g)
Group0(s, m) == Slice(s, m.start, m.end)
GroupN(s, m, g) == Slice(s, m.caps[g][1], m.caps[g][2])

RECURSIVE SubFrom(_, _, _, _, _)
\* re.sub(pat, repl, s) for a pattern that matches no empty string
SubFrom(pat, repl, s, from, ic) ==
    LET m == SearchFrom(pat, s, from, ic)
    IN IF ~m.ok THEN Slice(s, from, Len(s))
       ELSE Slice(s, from, m.start) \o repl \o SubFrom(pat, repl, s, m.end, ic)

Sub(pat, repl, s) == SubFrom(pat, repl, s, 0, FALSE)

RECURSIVE LStrip(_, _), RStrip(_, _)
LStrip(s, set) == IF Len(s) > 0 /\ s[1] \in set THEN LStrip(Tail(s), set) ELSE s
RStrip(s, set) ==
    IF Len(s) > 0 /\ s[Len(s)] \in set THEN RStrip(SubSeq(s, 1, Len(s) - 1), set) ELSE s
\* str.strip() and str.strip(chars)
Strip(s) == RStrip(LStrip(s, Whitespace), Whitespace)
StripChars(s, set) == RStrip(LStrip(s, set), set)

----------------------------------------------------------------------------
(* _normalise_text *)

\* r"\r?\n+"
PatNewlines == <<Rep({"\r"}, 0, 1), Rep({"\n"}, 1, -1)>>
\* r"[ \t]+"
PatSpaces == <<Rep(SpaceTab, 1, -1)>>

NormaliseText(t) == Strip(Sub(PatSpaces, <<" ">>, Sub(PatNewlines, <<"\n">>, t)))

----------------------------------------------------------------------------
(* _safe_filename *)

Unsafe == {"\\", "/", ":", "*", "?", "\"", "<", ">", "|"}
\* r'[\\/:*?"<>|]+'
PatUnsafe == <<Rep(Unsafe, 1, -1)>>
Unnamed == <<"u","n","n","a","m","e","d">>

SafeFilename(name) ==
    LET n == StripChars(Strip(Sub(PatUnsafe, <<"_">>, name)), {"."})
    IN IF n = <<>> THEN Unnamed ELSE n

----------------------------------------------------------------------------
(* _detect_supplier *)

RECURSIVE ContainsFrom(_, _, _)
ContainsFrom(s, w, from) ==
    IF from + Len(w) > Len(s) THEN FALSE
    ELSE Slice(s, from, from + Len(w)) = w \/ ContainsFrom(s, w, from + 1)
\* w in s
Contains(s, w) == ContainsFrom(s, w, 0)

W_corona == <<"c","o","r","o","n","a">>
W_energy == <<"e","n","e","r","g","y">>
W_pozitive == <<"p","o","z","i","t","i","v","e">>
W_octopus == <<"o","c","t","o","p","u","s">>
W_ovo == <<"o","v","o">>
W_electricity == <<"e","l","e","c","t","r","i","c","i","t","y">>
W_sse == <<"s","s","e">>

DetectSupplier(t0) ==
    LET t == Lower(t0)
    IN IF Contains(t, W_corona \o <<" ">> \o W_energy) THEN <<"CoronaEnergy">>
       ELSE IF Contains(t, W_pozitive) THEN <<"PozitiveEnergy">>
       ELSE IF Contains(t, W_octopus \o <<" ">> \o W_energy) THEN <<"OctopusEnergy">>
       ELSE IF Contains(t, W_ovo \o <<" ">> \o W_energy)
               \/ Contains(t, W_ovo \o <<" ">> \o W_electricity) THEN <<"OVOEnergy">>
       ELSE IF Contains(t, W_sse) /\ Contains(t, W_energy) THEN <<"SSE">>
       ELSE None

----------------------------------------------------------------------------
(* extract_ids_from_text *)

W_IV == <<"I","V">>
W_IN == <<"I","N">>
W_CN == <<"C","N">>
W_AGR == <<"A","G","R">>
W_Invoice == <<"I","n","v","o","i","c","e">>
W_Number == <<"N","u","m","b","e","r">>
W_Credit == <<"C","r","e","d","i","t">>
W_Note == <<"N","o","t","e">>
W_No == <<"N","o">>
W_Site == <<"S","i","t","e">>
W_reference == <<"r","e","f","e","r","e","n","c","e">>
W_ID == <<"I","D">>

Ws0 == <<Rep(Whitespace, 0, -1)>>
Ws1 == <<Rep(Whitespace, 1, -1)>>
DigitsFrom(n) == <<Rep(Digits, n, -1)>>
\* (?:IV|IN|CN)
InvPrefix == Alt(<<Lit(W_IV), Lit(W_IN), Lit(W_CN)>>)
\* \s*[-–]\s*
HyphenSep == Ws0 \o <<Rep(Hyphens, 1, 1)>> \o Ws0

\* r"\b((?:IV|IN|CN)\d{5,})\s*[-–]\s*(AGR\d{4,})\b"
PatInvAgr ==
    Bnd \o Grp(1, InvPrefix \o DigitsFrom(5)) \o HyphenSep
        \o Grp(2, Lit(W_AGR) \o DigitsFrom(4)) \o Bnd
\* r"\b(AGR\d{4,})\s*[-–]\s*((?:IV|IN|CN)\d{5,})\b"
PatAgrInv ==
    Bnd \o Grp(1, Lit(W_AGR) \o DigitsFrom(4)) \o HyphenSep
        \o Grp(2, InvPrefix \o DigitsFrom(5)) \o Bnd
\* r"\bcorona\s+energy\b"
PatCorona == Bnd \o Lit(W_corona) \o Ws1 \o Lit(W_energy) \o Bnd

\* a pattern of a fallback list, and whether it has a group (m.groups())
P(pat, grouped) == [pat |-> pat, grouped |-> grouped]

\* [r"\bCN\d+\b", r"\bIN\d+\b", r"Invoice Number\s+(IV\d+|CN\d+)"]
CoronaPats == <<
    P(Bnd \o Lit(W_CN) \o DigitsFrom(1) \o Bnd, FALSE),
    P(Bnd \o Lit(W_IN) \o DigitsFrom(1) \o Bnd, FALSE),
    P(Lit(W_Invoice) \o Ch(" ") \o Lit(W_Number) \o Ws1
        \o Grp(1, Alt(<<Lit(W_IV) \o DigitsFrom(1), Lit(W_CN) \o DigitsFrom(1)>>)), TRUE) >>

\* (?:Invoice|Credit\s*Note)\s*(?:Number|No\.?|#)
InvoiceLabel ==
    Alt(<<Lit(W_Invoice), Lit(W_Credit) \o Ws0 \o Lit(W_Note)>>) \o Ws0
        \o Alt(<<Lit(W_Number), Lit(W_No) \o <<Rep({"."}, 0, 1)>>, Ch("#")>>)

\* the three generic invoice patterns of lines 66-68
GenericPats == <<
    P(Bnd \o InvPrefix \o DigitsFrom(5) \o Bnd, FALSE),
    P(Bnd \o InvoiceLabel \o Ws0 \o Ch(":") \o Ws0
        \o Grp(1, InvPrefix \o DigitsFrom(3)), TRUE),
    P(Bnd \o InvoiceLabel \o Ws0
        \o Grp(1, <<Rep(UpperSet \cup Digits \cup {"-"}, 5, -1)>>), TRUE) >>

\* the three AGR patterns of lines 79-81
AgrPats == <<
    P(Bnd \o Lit(W_AGR) \o DigitsFrom(4) \o Bnd, FALSE),
    P(Lit(W_Site) \o Ws0 \o Lit(W_reference) \o Ws0 \o Lit(W_ID) \o Ws0
        \o Grp(1, Lit(W_AGR) \o DigitsFrom(4)), TRUE),
    P(Bnd \o Lit(W_Site) \o Ws0 \o Lit(W_ID) \o Ws0
        \o Grp(1, Lit(W_AGR) \o DigitsFrom(4)), TRUE) >>

RECURSIVE FirstMatch(_, _, _)
\* for pat in pats: m = re.search(pat, text, re.IGNORECASE); if m: ...; break
\* the value is m.group(1) if m.groups() else m.group(0), or None
FirstMatch(pats, i, t) ==
    IF i > Len(pats) THEN None
    ELSE LET m == Search(pats[i].pat, t, TRUE)
         IN IF m.ok THEN (IF pats[i].grouped THEN GroupN(t, m, 1) ELSE Group0(t, m))
            ELSE FirstMatch(pats, i + 1, t)

\* re.sub(r"\s*[-–]\s*", "-", inv)
NormaliseHyphens(inv) == Sub(HyphenSep, <<"-">>, inv)

\* variant: the vendor cue is searched without re.IGNORECASE
CoronaInvoice_CaseSensitive(t) ==
    IF Search(PatCorona, t, FALSE).ok
    THEN LET v == FirstMatch(CoronaPats, 1, t) IN IF v = None THEN None ELSE Upper(v)
    ELSE None

\* stage 1 (lines 55-61): the vendor-specific invoice reference, or None
CoronaInvoice(t) ==
    IF Search(PatCorona, t, TRUE).ok
    THEN LET v == FirstMatch(CoronaPats, 1, t) IN IF v = None THEN None ELSE Upper(v)
    ELSE None

\* stage 2 (lines 64-74): the generic invoice reference, or None
GenericInvoice(t) ==
    LET v == FirstMatch(GenericPats, 1, t)
    IN IF v = None THEN None ELSE Upper(NormaliseHyphens(v))

\* stage 3 (lines 77-86): the AGR reference, or None
AgrRef(t) ==
    LET v == FirstMatch(AgrPats, 1, t) IN IF v = None THEN None ELSE Upper(v)

\* variant: the vendor-specific search runs before the hyphenated patterns
ExtractIdsFromText_VendorFirst(t) ==
    LET m1 == Search(PatInvAgr, t, TRUE)
        m2 == Search(PatAgrInv, t, TRUE)
        c == CoronaInvoice(t)
    IN IF Truthy(c)
       THEN [inv |-> c, agr |-> AgrRef(t), ret |-> "line88"]
       ELSE IF m1.ok
       THEN [inv |-> Upper(GroupN(t, m1, 1)), agr |-> Upper(GroupN(t, m1, 2)), ret |-> "line47"]
       ELSE IF m2.ok
       THEN [inv |-> Upper(GroupN(t, m2, 2)), agr |-> Upper(GroupN(t, m2, 1)), ret |-> "line52"]
       ELSE [inv |-> GenericInvoice(t), agr |-> AgrRef(t), ret |-> "line88"]

\* the pair returned, and the return statement that returned it
ExtractIdsFromText(t) ==
    LET m1 == Search(PatInvAgr, t, TRUE)
        m2 == Search(PatAgrInv, t, TRUE)
    IN IF m1.ok
       THEN [inv |-> Upper(GroupN(t, m1, 1)), agr |-> Upper(GroupN(t, m1, 2)), ret |-> "line47"]
       ELSE IF m2.ok
       THEN [inv |-> Upper(GroupN(t, m2, 2)), agr |-> Upper(GroupN(t, m2, 1)), ret |-> "line52"]
       ELSE LET c == CoronaInvoice(t)
                inv == IF ~Truthy(c) THEN GenericInvoice(t) ELSE c
            IN [inv |-> inv, agr |-> AgrRef(t), ret |-> "line88"]

----------------------------------------------------------------------------
(* extract_refs *)

RECURSIVE JoinLines(_)
\* "\n".join(texts)
JoinLines(texts) ==
    IF Len(texts) = 0 THEN <<>>
    ELSE IF Len(texts) = 1 THEN texts[1]
    ELSE texts[1] \o <<"\n">> \o JoinLines(Tail(texts))

\* the pages' texts that are not empty (lines 97-100)
PageTexts(pages) == SelectSeq(pages, LAMBDA t : t # <<>>)

\* lines 105-110: the references and the supplier of a text that is not empty
RefsOfText(r, t) ==
    [inv |-> IF Truthy(r.inv) THEN Upper(r.inv) ELSE None,
     agr |-> IF Truthy(r.agr) THEN Upper(r.agr) ELSE None,
     supplier |-> DetectSupplier(t),
     err |-> None]

\* lines 101-110: the result for the text of the pages
RefsOfPages(t) ==
    IF t = <<>>
    THEN [inv |-> None, agr |-> None, supplier |-> None,
          err |-> <<"No extractable text (scanned image PDF?)">>]
    ELSE RefsOfText(ExtractIdsFromText(t), t)

\* variant: the empty text is not reported (lines 102-103 missing)
ExtractRefs_NoEmptyCheck(data) ==
    IF data.raises
    THEN [inv |-> None, agr |-> None, supplier |-> None,
          err |-> <<"Read error: ", data.exc>>]
    ELSE RefsOfText(ExtractIdsFromText(NormaliseText(JoinLines(PageTexts(data.pages)))),
                    NormaliseText(JoinLines(PageTexts(data.pages))))

\* data is what pdfplumber makes of the bytes: either opening or reading it raises
\* (data.raises, with the exception's text data.exc) or it has pages, each with the
\* text extract_text() gives for it (<<>> for None or "")
ExtractRefs(data) ==
    IF data.raises
    THEN [inv |-> None, agr |-> None, supplier |-> None,
          err |-> <<"Read error: ", data.exc>>]
    ELSE RefsOfPages(NormaliseText(JoinLines(PageTexts(data.pages))))

----------------------------------------------------------------------------
(* ensure_unique *)

DigitSeq == <<"0","1","2","3","4","5","6","7","8","9">>
RECURSIVE Str(_)
\* str(n) for n >= 0
Str(n) == IF n < 10 THEN <<DigitSeq[n + 1]>> ELSE Str(n \div 10) \o <<DigitSeq[(n % 10) + 1]>>

RECURSIVE RFind(_, _, _)
\* s.rfind(c) restricted to s[:upto], 0-based, -1 when absent
RFind(s, c, upto) ==
    IF upto = 0 THEN -1 ELSE IF s[upto] = c THEN upto - 1 ELSE RFind(s, c, upto - 1)

RECURSIVE AllDots(_, _, _)
AllDots(s, from, to) == from >= to \/ (s[from + 1] = "." /\ AllDots(s, from + 1, to))

\* os.path.splitext (posixpath): the extension starts at the last dot of the last
\* path component, unless only dots precede it in that component
SplitExt(p) ==
    LET sepIndex == RFind(p, "/", Len(p))
        dotIndex == RFind(p, ".", Len(p))
    IN IF dotIndex > sepIndex /\ ~AllDots(p, sepIndex + 1, dotIndex)
       THEN <<Slice(p, 0, dotIndex), Slice(p, dotIndex, Len(p))>>
       ELSE <<p, <<>> >>

RECURSIVE Probe(_, _, _, _, _)
\* the while loop of lines 122-124
Probe(base, ext, candidate, i, set) ==
    IF Lower(candidate) \in set
    THEN Probe(base, ext, base \o <<"_">> \o Str(i) \o ext, i + 1, set)
    ELSE candidate

\* variant: the accepted name is not recorded (line 125 missing)
EnsureUnique_NoRecord(name, set) ==
    LET parts == SplitExt(name)
        candidate == Probe(parts[1], parts[2], name, 1, set)
    IN [name |-> candidate, existing |-> set]

\* variant: the suffixes start at 0 (i = 0 at line 121)
EnsureUnique_FromZero(name, set) ==
    LET parts == SplitExt(name)
        candidate == Probe(parts[1], parts[2], name, 0, set)
    IN [name |-> candidate, existing |-> set \cup {Lower(candidate)}]

\* the name ensure_unique returns, and the set it leaves in `existing`
EnsureUnique(name, set) ==
    LET parts == SplitExt(name)
        candidate == Probe(parts[1], parts[2], name, 1, set)
    IN [name |-> candidate, existing |-> set \cup {Lower(candidate)}]

----------------------------------------------------------------------------
(* The naming decision of lines 143-156 and 211-222 *)

W_unreadable == <<"u","n","r","e","a","d","a","b","l","e","_">>
W_pdf == <<".","p","d","f">>

\* variant: the two references are joined invoice first
NamingDecision_InvFirst(r, name, pfx) ==
    LET note == OrEmpty(r.err)
    IN IF Truthy(r.agr) /\ Truthy(r.inv)
       THEN [out_base |-> pfx \o r.inv \o <<"-">> \o r.agr, note |-> note]
       ELSE IF Truthy(r.inv)
       THEN [out_base |-> pfx \o r.inv,
             note |-> IF note = <<>> THEN <<"AGR not found">> ELSE note]
       ELSE [out_base |-> pfx \o W_unreadable \o SafeFilename(SplitExt(name)[1]),
             note |-> IF note = <<>> THEN <<"Invoice ref not found">> ELSE note]

\* variant: an account reference without an invoice reference names the document
NamingDecision_AgrAlone(r, name, pfx) ==
    LET note == OrEmpty(r.err)
    IN IF Truthy(r.agr) /\ Truthy(r.inv)
       THEN [out_base |-> pfx \o r.agr \o <<"-">> \o r.inv, note |-> note]
       ELSE IF Truthy(r.inv)
       THEN [out_base |-> pfx \o r.inv,
             note |-> IF note = <<>> THEN <<"AGR not found">> ELSE note]
       ELSE IF Truthy(r.agr)
       THEN [out_base |-> pfx \o r.agr,
             note |-> IF note = <<>> THEN <<"Invoice ref not found">> ELSE note]
       ELSE [out_base |-> pfx \o W_unreadable \o SafeFilename(SplitExt(name)[1]),
             note |-> IF note = <<>> THEN <<"Invoice ref not found">> ELSE note]

NamingDecision(r, name, pfx) ==
    LET note == OrEmpty(r.err)
    IN IF Truthy(r.agr) /\ Truthy(r.inv)
       THEN [out_base |-> pfx \o r.agr \o <<"-">> \o r.inv, note |-> note]
       ELSE IF Truthy(r.inv)
       THEN [out_base |-> pfx \o r.inv,
             note |-> IF note = <<>> THEN <<"AGR not found">> ELSE note]
       ELSE [out_base |-> pfx \o W_unreadable \o SafeFilename(SplitExt(name)[1]),
             note |-> IF note = <<>> THEN <<"Invoice ref not found">> ELSE note]

\* the row appended to results (lines 161-168) or shown by st.table (lines 229-236)
Row(f, r, out_name, note) ==
    [original_name |-> f.name, agr |-> OrEmpty(r.agr), invoice |-> OrEmpty(r.inv),
     supplier |-> OrEmpty(r.supplier), output_name |-> out_name, note |-> note]

----------------------------------------------------------------------------
(* State machines.  Each function is run from inputs drawn from a bounded  *)
(* set; the variables of the other machines stay at rest.                  *)

NormRest == raw = <<>> /\ normalised = <<>> /\ normPc = "rest"
SafeRest == fname = <<>> /\ safe1 = <<>> /\ safe2 = <<>> /\ safePc = "rest"
IdsRest == text = <<>> /\ ids = [inv |-> None, agr |-> None, ret |-> "none"] /\ idsPc = "rest"
NoCall == [name |-> <<>>, before |-> {}, ret |-> <<>>, after |-> {}]
UniqRest ==
    existing0 = {} /\ existing = {} /\ requests = <<>> /\ returned = <<>> /\ last = NoCall
NoLoc == [f |-> [name |-> <<>>, data |-> [raises |-> FALSE, exc |-> "", pages |-> <<>>]],
          r |-> [inv |-> None, agr |-> None, supplier |-> None, err |-> None],
          out_base |-> <<>>, note |-> <<>>, requested |-> <<>>, out_name |-> <<>>,
          seen_before |-> {}]
NoDownload == [file_name |-> <<>>, mime |-> ""]
BatchRest ==
    /\ uploaded_files = <<>> /\ prefix = <<>> /\ show_log = TRUE /\ entry = "rest"
    /\ pc = "rest" /\ idx = 0 /\ seen = {} /\ results = <<>> /\ archive = <<>>
    /\ loc = NoLoc /\ download = NoDownload

\* all sequences over set of length at most n
SeqsUpTo(set, n) == UNION {[1..k -> set] : k \in 0..n}

RECURSIVE Flatten(_)
Flatten(ss) == IF Len(ss) = 0 THEN <<>> ELSE Head(ss) \o Flatten(Tail(ss))

(* ---- _normalise_text ---- *)

RawAlphabet == {"\r", "\n", " ", "\t", "a"}

NormInit ==
    /\ raw \in SeqsUpTo(RawAlphabet, MaxRawLen) /\ normalised = <<>> /\ normPc = "call"
    /\ SafeRest /\ IdsRest /\ UniqRest /\ BatchRest

Normalise ==
    /\ normPc = "call"
    /\ normalised' = NormaliseText(raw)
    /\ normPc' = "done"
    /\ UNCHANGED <<raw, safeVars, idsVars, uniqVars, batchVars>>

SpecNormalise == NormInit /\ [][Normalise]_vars

(* ---- _safe_filename ---- *)

NameAlphabet == {".", " ", "/", "a"}

SafeInit ==
    /\ fname \in SeqsUpTo(NameAlphabet, MaxNameLen) /\ safe1 = <<>> /\ safe2 = <<>>
    /\ safePc = "call"
    /\ NormRest /\ IdsRest /\ UniqRest /\ BatchRest

Sanitise ==
    /\ safePc = "call"
    /\ safe1' = SafeFilename(fname)
    /\ safePc' = "once"
    /\ UNCHANGED <<fname, safe2, normVars, idsVars, uniqVars, batchVars>>

SanitiseAgain ==
    /\ safePc = "once"
    /\ safe2' = SafeFilename(safe1)
    /\ safePc' = "twice"
    /\ UNCHANGED <<fname, safe1, normVars, idsVars, uniqVars, batchVars>>

SpecSanitise == SafeInit /\ [][Sanitise \/ SanitiseAgain]_vars

(* ---- extract_ids_from_text ---- *)

T_CoronaEnergy == <<"C","o","r","o","n","a"," ","E","n","e","r","g","y">>
T_CN004521 == <<"C","N","0","0","4","5","2","1">>
T_IV12345 == <<"I","V","1","2","3","4","5">>
T_agr1234 == <<"a","g","r","1","2","3","4">>
\* what a text starts with: nothing, the cue, the cue and a short CN token, the cue
\* run into a following letter
Leads == { <<>>, T_CoronaEnergy \o <<" ">>, T_CoronaEnergy \o <<" ","c","n","1"," ">>,
           T_CoronaEnergy \o <<"x", " ">> }
\* what it ends with
Tails == { <<>>, <<" ">> \o T_CN004521, <<" ">> \o T_CN004521 \o <<" ">> \o T_CoronaEnergy }
\* what its middle is made of
Atoms == { T_IV12345, T_agr1234, <<"-">>, <<" ", "EN DASH", " ">>, <<" ">>, <<"x">> }
Texts == { l \o Flatten(m) \o t : l \in Leads, m \in SeqsUpTo(Atoms, MaxFrags), t \in Tails }

IdsInit ==
    /\ text \in Texts /\ ids = [inv |-> None, agr |-> None, ret |-> "none"] /\ idsPc = "call"
    /\ NormRest /\ SafeRest /\ UniqRest /\ BatchRest

Extract ==
    /\ idsPc = "call"
    /\ ids' = ExtractIdsFromText(text)
    /\ idsPc' = "done"
    /\ UNCHANGED <<text, normVars, safeVars, uniqVars, batchVars>>

SpecExtract == IdsInit /\ [][Extract]_vars

(* ---- ensure_unique ---- *)

N_a_pdf == <<"a",".","p","d","f">>
N_A_pdf == <<"A",".","p","d","f">>
N_a_1_pdf == <<"a","_","1",".","p","d","f">>
N_zip ==
    <<"r","e","n","a","m","e","d","_","i","n","v","o","i","c","e","s",".","z","i","p">>
N_a_2_pdf == <<"a","_","2",".","p","d","f">>
RequestPool == { N_a_pdf, N_A_pdf, N_a_1_pdf, <<"a">>, <<".", "a">> }
SeedPool == { N_a_pdf, N_a_1_pdf, N_a_2_pdf, N_A_pdf }

UniqInit ==
    /\ existing0 \in SUBSET SeedPool /\ existing = existing0
    /\ requests = <<>> /\ returned = <<>> /\ last = NoCall
    /\ NormRest /\ SafeRest /\ IdsRest /\ BatchRest

EnsureUniqueCall ==
    /\ Len(requests) < MaxRequests
    /\ \E name \in RequestPool :
          LET u == EnsureUnique(name, existing)
          IN /\ requests' = Append(requests, name)
             /\ returned' = Append(returned, u.name)
             /\ existing' = u.existing
             /\ last' = [name |-> name, before |-> existing, ret |-> u.name,
                         after |-> u.existing]
    /\ UNCHANGED <<existing0, normVars, safeVars, idsVars, batchVars>>

SpecUnique == UniqInit /\ [][EnsureUniqueCall]_vars

(* ---- the "Process and Download" handler and rename_and_zip_files ---- *)

\* what pdfplumber makes of a document's bytes
D_corrupt ==
    [raises |-> TRUE, exc |-> "No /Root object! - Is this really a PDF?", pages |-> <<>>]
D_scanned == [raises |-> FALSE, exc |-> "", pages |-> << <<>> >>]
T_SiteId ==
    <<"S","i","t","e"," ","I","D"," ","A","G","R","1","2","3","4">>
D_agrOnly == [raises |-> FALSE, exc |-> "", pages |-> <<T_SiteId>>]
T_InvoiceNo ==
    <<"I","n","v","o","i","c","e"," "," ","N","o",":"," ","i","v","1","2","3","4","5">>
D_invOnly == [raises |-> FALSE, exc |-> "", pages |-> << <<>>, T_InvoiceNo >>]
T_AgrInv ==
    <<"a","g","r","1","2","3","4"," ","-"," ","I","V","1","2","3","4","5">>
D_both == [raises |-> FALSE, exc |-> "", pages |-> <<T_AgrInv>>]
DataPool == { D_corrupt, D_scanned, D_agrOnly, D_invOnly, D_both }
NamePool == { N_a_pdf, <<"A",".","p","d","f">> }
\* the name of a document shows in its output only when no invoice reference is found
DocPool ==
    { [name |-> n, data |-> d] : n \in NamePool, d \in {D_corrupt, D_scanned, D_agrOnly} }
        \cup { [name |-> N_a_pdf, data |-> d] : d \in {D_invOnly, D_both} }
Prefixes == { <<>>, <<"p", "/">> }
\* extract_refs on each document of the pool, computed once
RefsOf == [d \in DataPool |-> ExtractRefs(d)]

Init ==
    /\ uploaded_files \in SeqsUpTo(DocPool, MaxDocs)
    /\ prefix \in Prefixes
    /\ entry \in {"ui", "call"}
    /\ show_log \in (IF entry = "ui" THEN BOOLEAN ELSE {TRUE})
    /\ pc = "idle" /\ idx = 0 /\ seen = {} /\ results = <<>> /\ archive = <<>>
    /\ loc = NoLoc /\ download = NoDownload
    /\ NormRest /\ SafeRest /\ IdsRest /\ UniqRest

\* line 203 with nothing uploaded: the condition is false and the script ends
ClickNoFiles ==
    /\ entry = "ui" /\ pc = "idle" /\ Len(uploaded_files) = 0
    /\ pc' = "not_run"
    /\ UNCHANGED <<uploaded_files, prefix, show_log, entry, idx, seen, results, archive,
                   loc, download>>
    /\ UNCHANGED <<normVars, safeVars, idsVars, uniqVars>>

\* lines 205-243: one document, no archive and no ensure_unique
ClickSingle ==
    /\ entry = "ui" /\ pc = "idle" /\ Len(uploaded_files) = 1
    /\ \E f \in {uploaded_files[1]} :
       \E r \in {RefsOf[f.data]} :
       \E d \in {NamingDecision(r, f.name, prefix)} :
       \E filename \in {SafeFilename(d.out_base) \o W_pdf} :
          /\ loc' = [f |-> f, r |-> r, out_base |-> d.out_base, note |-> d.note,
                     requested |-> filename, out_name |-> filename, seen_before |-> {}]
          /\ results' = IF show_log THEN <<Row(f, r, filename, d.note)>> ELSE <<>>
          /\ download' = [file_name |-> filename, mime |-> "application/pdf"]
    /\ pc' = "single_done"
    /\ UNCHANGED <<uploaded_files, prefix, show_log, entry, idx, seen, archive>>
    /\ UNCHANGED <<normVars, safeVars, idsVars, uniqVars>>

\* lines 133-137: rename_and_zip_files is entered
EnterRename ==
    /\ pc' = "loop" /\ idx' = 1 /\ seen' = {} /\ results' = <<>> /\ archive' = <<>>
    /\ UNCHANGED <<uploaded_files, prefix, show_log, entry, loc, download>>
    /\ UNCHANGED <<normVars, safeVars, idsVars, uniqVars>>

\* line 245: two or more documents
ClickBatch == entry = "ui" /\ pc = "idle" /\ Len(uploaded_files) >= 2 /\ EnterRename

\* rename_and_zip_files called with any list of documents
CallRename == entry = "call" /\ pc = "idle" /\ EnterRename

\* lines 138-168: one pass of the for loop
ProcessDocument ==
    /\ pc = "loop" /\ idx <= Len(uploaded_files)
    /\ \E f \in {uploaded_files[idx]} :
       \E r \in {RefsOf[f.data]} :
       \E d \in {NamingDecision(r, f.name, prefix)} :
       \E requested \in {SafeFilename(d.out_base) \o W_pdf} :
       \E u \in {EnsureUnique(requested, seen)} :
          /\ seen' = u.existing
          /\ archive' = Append(archive, [name |-> u.name, data |-> f.data])
          /\ results' = Append(results, Row(f, r, u.name, d.note))
          /\ loc' = [f |-> f, r |-> r, out_base |-> d.out_base, note |-> d.note,
                     requested |-> requested, out_name |-> u.name, seen_before |-> seen]
    /\ idx' = idx + 1
    /\ UNCHANGED <<uploaded_files, prefix, show_log, entry, pc, download>>
    /\ UNCHANGED <<normVars, safeVars, idsVars, uniqVars>>

\* lines 170-171, and for the handler lines 246-256
Return ==
    /\ pc = "loop" /\ idx > Len(uploaded_files)
    /\ pc' = "returned"
    /\ download' = IF entry = "ui"
                   THEN [file_name |-> N_zip, mime |-> "application/zip"]
                   ELSE download
    /\ UNCHANGED <<uploaded_files, prefix, show_log, entry, idx, seen, results, archive, loc>>
    /\ UNCHANGED <<normVars, safeVars, idsVars, uniqVars>>

Next == ClickNoFiles \/ ClickSingle \/ ClickBatch \/ CallRename \/ ProcessDocument \/ Return

Spec == Init /\ [][Next]_vars

----------------------------------------------------------------------------
(* Properties of ensure_unique *)

\* stem_k.ext
Suffixed(name, k) == SplitExt(name)[1] \o <<"_">> \o Str(k) \o SplitExt(name)[2]

\* C1: within one batch (a set that starts empty and only ensure_unique changes), no
\* two names returned are equal when compared case-insensitively
C1_ReturnedNamesDistinct ==
    existing0 = {} =>
        \A i, j \in 1..Len(returned) : i # j => Lower(returned[i]) # Lower(returned[j])

\* three requests that differ at most in letter case were resolved on an empty set
C1_Witness ==
    /\ existing0 = {}
    /\ requests = <<N_a_pdf, N_A_pdf, N_a_pdf>>
    /\ Len(returned) = 3

\* C2: ensure_unique returns the requested name when its lowercased form is not in the
\* set, else stem_k.ext for the smallest k >= 1 whose lowercased form is not in the set;
\* it adds exactly the lowercased returned name to the set; a.pdf three times on an
\* empty set gives a.pdf, a_1.pdf, a_2.pdf
C2_SmallestFreeSuffix ==
    /\ Len(requests) > 0 =>
          /\ Lower(last.name) \notin last.before => last.ret = last.name
          /\ Lower(last.name) \in last.before =>
                \E k \in 1..(Cardinality(last.before) + 1) :
                    /\ last.ret = Suffixed(last.name, k)
                    /\ Lower(last.ret) \notin last.before
                    /\ \A j \in 1..(k - 1) : Lower(Suffixed(last.name, j)) \in last.before
          /\ last.after = last.before \cup {Lower(last.ret)}
          /\ existing = last.after
    /\ (existing0 = {} /\ requests = <<N_a_pdf, N_a_pdf, N_a_pdf>>) =>
          returned = <<N_a_pdf, N_a_1_pdf, N_a_2_pdf>>

\* a.pdf was requested three times on an empty set and the third call probed past _1
C2_Witness ==
    /\ existing0 = {}
    /\ requests = <<N_a_pdf, N_a_pdf, N_a_pdf>>
    /\ last.ret = N_a_2_pdf
    /\ last.before = {N_a_pdf, N_a_1_pdf}

----------------------------------------------------------------------------
(* Properties of _safe_filename and _normalise_text *)

\* C6: the sanitiser is idempotent: _safe_filename(_safe_filename(x)) = _safe_filename(x)
C6_SanitiseIdempotent == safePc = "twice" => safe2 = safe1

\* C7: the normalised text has no two consecutive spaces/tabs, no two consecutive
\* newlines, and no leading or trailing whitespace
C7_NormalisedCollapsed ==
    normPc = "done" =>
        /\ \A i \in 1..(Len(normalised) - 1) :
              /\ ~(normalised[i] \in SpaceTab /\ normalised[i + 1] \in SpaceTab)
              /\ ~(normalised[i] = "\n" /\ normalised[i + 1] = "\n")
        /\ Len(normalised) > 0 =>
              normalised[1] \notin Whitespace /\ normalised[Len(normalised)] \notin Whitespace

----------------------------------------------------------------------------
(* Properties of extract_ids_from_text, stated over the words of the text:  *)
(* its maximal runs of word characters, each with the separator after it    *)

RECURSIVE RunLen(_, _, _)
\* the length of the longest run from offset pos of characters in (inWord) or not in
\* WordChars
RunLen(s, pos, inWord) ==
    IF pos >= Len(s) \/ (s[pos + 1] \in WordChars) # inWord THEN 0
    ELSE 1 + RunLen(s, pos + 1, inWord)

RECURSIVE WordsFrom(_, _)
WordsFrom(s, pos) ==
    IF pos >= Len(s) THEN <<>>
    ELSE LET w == RunLen(s, pos, TRUE)
             g == RunLen(s, pos + w, FALSE)
         IN <<[w |-> Slice(s, pos, pos + w), gap |-> Slice(s, pos + w, pos + w + g)]>>
                \o WordsFrom(s, pos + w + g)

\* the words of s in order; a text that starts with a separator has the empty first word
Words(s) == WordsFrom(s, 0)

AllIn(w, set) == \A i \in 1..Len(w) : w[i] \in set
\* (IV|IN|CN) and 5 or more digits; AGR and 4 or more digits; CN and 1 or more digits
IsInvToken(w) ==
    /\ Len(w) >= 7 /\ Upper(SubSeq(w, 1, 2)) \in {W_IV, W_IN, W_CN}
    /\ AllIn(SubSeq(w, 3, Len(w)), Digits)
IsAgrToken(w) ==
    Len(w) >= 7 /\ Upper(SubSeq(w, 1, 3)) = W_AGR /\ AllIn(SubSeq(w, 4, Len(w)), Digits)
IsCnToken(w) ==
    Len(w) >= 3 /\ Upper(SubSeq(w, 1, 2)) = W_CN /\ AllIn(SubSeq(w, 3, Len(w)), Digits)

\* a separator that is one hyphen or en dash with optional whitespace around it
IsHyphenGap(g) ==
    \E h \in 1..Len(g) :
        /\ g[h] \in Hyphens
        /\ \A i \in 1..Len(g) : i # h => g[i] \in Whitespace

\* the (invoice, account) pairs, uppercased, that appear hyphen-joined in either order
HyphenJoinedPairs(s) ==
    LET ws == Words(s)
    IN { <<Upper(ws[k].w), Upper(ws[k + 1].w)>> :
            k \in { k \in 1..(Len(ws) - 1) :
                      IsHyphenGap(ws[k].gap) /\ IsInvToken(ws[k].w) /\ IsAgrToken(ws[k + 1].w) } }
       \cup
       { <<Upper(ws[k + 1].w), Upper(ws[k].w)>> :
            k \in { k \in 1..(Len(ws) - 1) :
                      IsHyphenGap(ws[k].gap) /\ IsAgrToken(ws[k].w) /\ IsInvToken(ws[k + 1].w) } }

\* C8: when an invoice token and an AGR token appear hyphen-joined in either order,
\* both references come, uppercased, from one hyphen-joined match (the returns of the
\* first stage), whatever else the text holds
C8_HyphenJoinedWins ==
    (idsPc = "done" /\ HyphenJoinedPairs(text) # {}) =>
        /\ ids.ret \in {"line47", "line52"}
        /\ <<ids.inv, ids.agr>> \in HyphenJoinedPairs(text)

\* the text starts with the Corona cue and a CN token, and an AGR-first pair follows
C8_Witness ==
    /\ idsPc = "done"
    /\ HyphenJoinedPairs(text) # {}
    /\ Search(PatCorona, text, TRUE).ok
    /\ \E k \in 1..Len(Words(text)) : IsCnToken(Words(text)[k].w)
    /\ ids.ret = "line52"

\* the words "corona energy" (any case), separated by whitespace only
CueAsWords(s) ==
    LET ws == Words(s)
    IN \E k \in 1..(Len(ws) - 1) :
          /\ Lower(ws[k].w) = W_corona
          /\ Lower(ws[k + 1].w) = W_energy
          /\ AllIn(ws[k].gap, Whitespace)

\* the first CN token of s, uppercased, or None
FirstCnToken(s) ==
    LET ws == Words(s)
        at == { k \in 1..Len(ws) : IsCnToken(ws[k].w) }
    IN IF at = {} THEN None
       ELSE Upper(ws[CHOOSE k \in at : \A j \in at : k <= j].w)

HasBareToken(s, tok) == \E k \in 1..Len(Words(s)) : Words(s)[k].w = tok

\* C9 as stated: for every text containing "Corona Energy" and a bare token CN004521,
\* the invoice reference is exactly CN004521
C9_CoronaGivesCN004521 ==
    (idsPc = "done" /\ Contains(text, T_CoronaEnergy) /\ HasBareToken(text, T_CN004521)) =>
        ids.inv = T_CN004521

\* C9 as amended: when the words "corona energy" occur, no invoice and AGR token are
\* hyphen-joined, and the first bare CN token of the text is CN004521, the invoice
\* reference is exactly CN004521
C9_CoronaFirstCnToken ==
    (/\ idsPc = "done"
     /\ CueAsWords(text)
     /\ HyphenJoinedPairs(text) = {}
     /\ FirstCnToken(text) = T_CN004521) =>
        ids.inv = T_CN004521

\* the cue, then an IV token, then CN004521: the generic search would take the IV token
C9_Witness ==
    /\ idsPc = "done"
    /\ CueAsWords(text)
    /\ HyphenJoinedPairs(text) = {}
    /\ FirstCnToken(text) = T_CN004521
    /\ HasBareToken(text, T_IV12345)
    /\ ids.inv = T_CN004521

----------------------------------------------------------------------------
(* Properties of the handler and of rename_and_zip_files *)

\* a document has been named: loc holds the locals of the last one
Processed == pc = "single_done" \/ (pc \in {"loop", "returned"} /\ idx > 1)

\* the decision table of the naming policy, on the locals of the last document
DecisionTable ==
    LET r == loc.r
        stem == SplitExt(loc.f.name)[1]
    IN /\ (Truthy(r.agr) /\ Truthy(r.inv)) =>
             loc.out_base = prefix \o r.agr \o <<"-">> \o r.inv
       /\ (~Truthy(r.agr) /\ Truthy(r.inv)) =>
             loc.out_base = prefix \o r.inv /\ loc.note = <<"AGR not found">>
       /\ (~Truthy(r.agr) /\ ~Truthy(r.inv)) =>
             /\ loc.out_base = prefix \o W_unreadable \o SafeFilename(stem)
             /\ loc.note = IF r.err # None THEN r.err ELSE <<"Invoice ref not found">>

\* the row of the last document, when there is one
LastRowIs(out_name) == Len(results) > 0 => results[Len(results)].output_name = out_name

\* C3 as stated: the base follows the decision table and the final name is
\* sanitize(base) + ".pdf"
C3_TableAndFinalName ==
    Processed =>
        /\ DecisionTable
        /\ loc.out_name = SafeFilename(loc.out_base) \o W_pdf
        /\ LastRowIs(SafeFilename(loc.out_base) \o W_pdf)

\* C3 as amended: the base follows the decision table; sanitize(base) + ".pdf" is the
\* name asked of the collision resolver, and it is the final name in the
\* single-document path and whenever no earlier document of the batch took it
C3_TableAndRequestedName ==
    Processed =>
        /\ DecisionTable
        /\ loc.requested = SafeFilename(loc.out_base) \o W_pdf
        /\ (pc = "single_done" \/ Lower(loc.requested) \notin loc.seen_before) =>
              loc.out_name = loc.requested
        /\ LastRowIs(loc.out_name)

\* a batch of three with a prefix went through the three rows of the table
C3_Witness ==
    /\ pc = "returned" /\ Len(results) = 3 /\ prefix # <<>>
    /\ results[1].agr # <<>> /\ results[1].invoice # <<>>
    /\ results[2].note = <<"AGR not found">>
    /\ results[3].invoice = <<>> /\ results[3].agr = <<>>

\* reading the document fails, or it has no text but whitespace
ReadFails(d) == d.raises
NoText(d) == ~d.raises /\ \A i \in 1..Len(d.pages) : AllIn(d.pages[i], Whitespace)

\* C4: no document's failure aborts the batch: every document gets a record, in input
\* order, under whose output name its bytes are in the archive; a failing document's
\* record carries its error and has empty invoice and account fields
C4_EveryDocumentRecorded ==
    pc \in {"loop", "returned"} =>
        /\ pc = "returned" => Len(results) = Len(uploaded_files)
        /\ pc = "loop" => Len(results) = idx - 1
        /\ Len(archive) = Len(results)
        /\ \A i \in 1..Len(results) :
              LET f == uploaded_files[i]
                  row == results[i]
              IN /\ row.original_name = f.name
                 /\ archive[i] = [name |-> row.output_name, data |-> f.data]
                 /\ \A j \in 1..Len(results) : archive[j].name = archive[i].name => j = i
                 /\ ReadFails(f.data) =>
                       /\ row.note = <<"Read error: ", f.data.exc>>
                       /\ row.invoice = <<>> /\ row.agr = <<>>
                 /\ NoText(f.data) =>
                       /\ row.note = <<"No extractable text (scanned image PDF?)">>
                       /\ row.invoice = <<>> /\ row.agr = <<>>

\* a batch of three returned whose first document could not be read, whose second had
\* no text and whose third had an invoice reference
C4_Witness ==
    /\ pc = "returned" /\ Len(uploaded_files) = 3
    /\ ReadFails(uploaded_files[1].data)
    /\ NoText(uploaded_files[2].data)
    /\ results[3].invoice # <<>>

\* C5: an empty document collection is reported to the caller as a precondition
\* violation before any processing, and no empty archive and ledger are produced
C5_EmptyCollectionRejected ==
    Len(uploaded_files) = 0 => pc \in {"idle", "precondition_violation"}

\* C10: a document whose account reference was found, whose invoice reference was not
\* and that had no read error is named prefix + "unreadable_" + sanitised stem, with
\* the note "Invoice ref not found", and its row still reports the account reference
C10_AccountAloneIsUnreadable ==
    (Processed /\ Truthy(loc.r.agr) /\ ~Truthy(loc.r.inv) /\ loc.r.err = None) =>
        /\ loc.out_base = prefix \o W_unreadable \o SafeFilename(SplitExt(loc.f.name)[1])
        /\ loc.note = <<"Invoice ref not found">>
        /\ loc.requested = SafeFilename(loc.out_base) \o W_pdf
        /\ Len(results) > 0 =>
              LET row == results[Len(results)]
              IN /\ row.agr = loc.r.agr /\ row.agr # <<>>
                 /\ row.invoice = <<>>
                 /\ row.note = <<"Invoice ref not found">>
                 /\ row.output_name = loc.out_name

\* the single-document path named a document that has an account reference only
C10_Witness ==
    /\ pc = "single_done" /\ show_log
    /\ Truthy(loc.r.agr) /\ ~Truthy(loc.r.inv) /\ loc.r.err = None
    /\ Len(results) = 1

====
